---- MODULE Spec2Model ----
(***************************************************************************)
(* State-machine model of the I2C slave driver in src/src/i2c/i2c_slave.rs *)
(*                                                                         *)
(* Two phases of the driver's life are modelled, each with its own         *)
(* specification over the same variables:                                  *)
(*                                                                         *)
(*   CtorSpec  construction: I2c::_i2c_slave and init_slave, one action    *)
(*             per register write, for every bus mode and input clock of   *)
(*             the input sets Modes and Clocks.                            *)
(*   Spec      polling: BlockingI2cSlave::listen on a constructed          *)
(*             controller, split at its three calls (it_status_clear,      *)
(*             get_last_event, the dispatch) and at the condition and the  *)
(*             body of the while loop of clear_flags, interleaved with the *)
(*             bus hardware changing the status flags between two polls.   *)
(*   FairSpec  Spec with weak fairness on the steps of listen (the CPU     *)
(*             keeps executing a handler it has entered).                  *)
(*                                                                         *)
(* Registers are modelled field by field: a register of flag bits is the   *)
(* set of the names of the bits that are set, a numeric field is a number. *)
(* The hardware reacts to register accesses as the comments of clear_flags *)
(* document it (ADDR: read SR1, read SR2; STOPF: read SR1, write CR1) and   *)
(* as the clear_bit() calls of it_status_clear rely on (an error bit is    *)
(* cleared by writing 0 to it, the other bits of SR1 ignore writes).       *)
(* The bus changes status flags only between two polls: the status a poll  *)
(* sees changes during the poll only through the poll's own accesses.      *)
(***************************************************************************)
EXTENDS Integers, Sequences, FiniteSets, TLC

VARIABLES
    pc,          \* position of the program (construction step, or step of listen)
    mode,        \* I2c.mode: [kind, frequency, duty_cycle]
    pclk1,       \* I2c.pclk1: input clock of the peripheral, Hz
    i2c_cr1,     \* CR1: subset of {"pe", "ack", "engc"}
    i2c_cr2,     \* CR2.FREQ
    i2c_trise,   \* TRISE.TRISE
    i2c_ccr,     \* CCR: [ccr, duty, f_s]
    i2c_oar1,    \* OAR1: [add, addmode]
    i2c_sr1,     \* SR1: set of the flags that are set
    i2c_sr2,     \* SR2: subset of {"busy", "tra"}
    i2c_dr,      \* DR, receive side: the byte a read of DR returns
    stopSticky,  \* hardware behaviour: STOPF does not clear on its clear sequence
    sr1,         \* get_last_event: local sr1 (snapshot of SR1)
    sr2,         \* get_last_event: local sr2 (snapshot of SR2)
    ev,          \* listen: local ev
    trace,       \* register accesses of the construction / of the current poll
    iters,       \* clear_flags: iterations of the while loop in the current poll
    sink         \* what the current poll handed to log::info!

vars == << pc, mode, pclk1, i2c_cr1, i2c_cr2, i2c_trise, i2c_ccr, i2c_oar1,
           i2c_sr1, i2c_sr2, i2c_dr, stopSticky, sr1, sr2, ev, trace, iters, sink >>

regs == << i2c_cr1, i2c_cr2, i2c_trise, i2c_ccr, i2c_oar1, i2c_sr1, i2c_sr2, i2c_dr >>

config == << mode, pclk1 >>

locals == << sr1, sr2, ev, iters, sink >>

----------------------------------------------------------------------------
(* Bounds and input sets *)

\* The loop counter of clear_flags saturates here (the loop itself goes on).
IterCap == 9

Freqs == {0, 100, 100000, 400000, 400001, 1000000}

Clocks == {2000000, 8000000, 36000000, 300000000}

DutyCycles == {"Ratio2to1", "Ratio16to9"}

Modes ==
    [kind : {"Standard"}, frequency : Freqs, duty_cycle : {"none"}]
    \cup [kind : {"Fast"}, frequency : Freqs, duty_cycle : DutyCycles]

\* Bytes the bus master sends.
RxBytes == {0, 165}

----------------------------------------------------------------------------
(* Program constants *)

MaxFrequency == 400000

OwnAddress == 32

FirstResponseByte == 10

NextResponseByte == 11

ErrBits == {"smbalert", "timeout", "pecerr", "ovr", "af", "arlo", "berr"}

EventBits1 == {"addr", "tx_e", "rx_ne", "btf", "stopf"}

Sr2Bits == {"busy", "tra"}

----------------------------------------------------------------------------
(* Integer casts *)

U8(x) == x % 256

U16(x) == x % 65536

Max(a, b) == IF a >= b THEN a ELSE b

----------------------------------------------------------------------------
(* Register accesses, as entries of trace *)

Rd(reg, bits, num) == [op |-> "read", reg |-> reg, bits |-> bits, num |-> num]

Wr(reg, bits, num) == [op |-> "write", reg |-> reg, bits |-> bits, num |-> num]

IsRead(a, reg) == a.op = "read" /\ a.reg = reg

IsWrite(a, reg) == a.op = "write" /\ a.reg = reg

Count(t, op, reg) == Cardinality({i \in DOMAIN t : t[i].op = op /\ t[i].reg = reg})

Writes(t) == Cardinality({i \in DOMAIN t : t[i].op = "write"})

----------------------------------------------------------------------------
(* Timing and address arithmetic of init_slave *)

\* let pclk1_mhz = (self.pclk1 / 1000000) as u16;
Pclk1Mhz(c) == U16(c \div 1000000)

\* w.freq().bits(pclk1_mhz as u8)
Cr2Value(c) == U8(Pclk1Mhz(c))

\* Standard: (pclk1_mhz + 1) as u8;  Fast: (pclk1_mhz * 300 / 1000 + 1) as u8
TriseValue(m, c) ==
    IF m.kind = "Standard"
    THEN U8(U16(Pclk1Mhz(c) + 1))
    ELSE U8(U16((U16(Pclk1Mhz(c) * 300) \div 1000) + 1))

\* pclk1_mhz * 300 does not fit the u16 it is computed in.
TriseOverflows(m, c) == m.kind = "Fast" /\ Pclk1Mhz(c) * 300 > 65535

\* ((self.pclk1 / (freq.0 * k)) as u16).max(lo): the quotient is narrowed to
\* 16 bits before the lower limit is applied.
Divisor(c, f, k, lo) == Max(U16(c \div (f * k)), lo)

CcrValue(m, c) ==
    IF m.kind = "Standard"
    THEN [ccr |-> Divisor(c, m.frequency, 2, 4), duty |-> FALSE, f_s |-> FALSE]
    ELSE IF m.duty_cycle = "Ratio2to1"
    THEN [ccr |-> Divisor(c, m.frequency, 3, 1), duty |-> FALSE, f_s |-> TRUE]
    ELSE [ccr |-> Divisor(c, m.frequency, 25, 1), duty |-> TRUE, f_s |-> TRUE]

\* A plausible slip: the address is not shifted.
Oar1ValueNoShift(address) == [add |-> U16(address), addmode |-> FALSE]

\* w.addmode().clear_bit(); w.add().bits((address as u16) << 1)
Oar1Value(address) == [add |-> U16(address * 2), addmode |-> FALSE]

\* A plausible slip: one zero too many in the limit.
FrequencyOkLax(m) == m.frequency <= 4000000

\* assert!(mode.get_frequency().0 <= 400_000)
FrequencyOk(m) == m.frequency <= MaxFrequency

\* Bits of a CCR value, as a trace entry shows them.
CcrBits(v) == (IF v.duty THEN {"duty"} ELSE {}) \cup (IF v.f_s THEN {"f_s"} ELSE {})

----------------------------------------------------------------------------
(* Construction: I2c::_i2c_slave and init_slave *)

\* The peripheral after I2C::reset(apb): every register at its reset value.
ResetRegs ==
    /\ i2c_cr1 = {}
    /\ i2c_cr2 = 0
    /\ i2c_trise = 2
    /\ i2c_ccr = [ccr |-> 0, duty |-> FALSE, f_s |-> FALSE]
    /\ i2c_oar1 = [add |-> 0, addmode |-> FALSE]
    /\ i2c_sr1 = {}
    /\ i2c_sr2 = {}
    /\ i2c_dr = 0

NoPoll ==
    /\ sr1 = {}
    /\ sr2 = {}
    /\ ev = "None"
    /\ iters = 0
    /\ sink = << >>

CtorInit ==
    /\ pc = "new"
    /\ mode \in Modes
    /\ pclk1 \in Clocks
    /\ ResetRegs
    /\ stopSticky = FALSE
    /\ trace = << >>
    /\ NoPoll

\* _i2c_slave up to the call of init_slave: the assertion on the frequency.
I2cSlaveNew ==
    /\ pc = "new"
    /\ pc' = IF FrequencyOk(mode) THEN "init_cr2" ELSE "panicked"
    /\ UNCHANGED << config, regs, stopSticky, trace, locals >>

\* self.i2c.cr2.write(|w| w.freq().bits(pclk1_mhz as u8))
InitCr2 ==
    /\ pc = "init_cr2"
    /\ i2c_cr2' = Cr2Value(pclk1)
    /\ trace' = Append(trace, Wr("cr2", {}, Cr2Value(pclk1)))
    /\ pc' = "init_cr1"
    /\ UNCHANGED << config, i2c_cr1, i2c_trise, i2c_ccr, i2c_oar1, i2c_sr1,
                    i2c_sr2, i2c_dr, stopSticky, locals >>

\* self.i2c.cr1.write(|w| w.pe().clear_bit()): the reset value with PE clear.
InitCr1 ==
    /\ pc = "init_cr1"
    /\ i2c_cr1' = {}
    /\ trace' = Append(trace, Wr("cr1", {}, 0))
    /\ pc' = "init_trise"
    /\ UNCHANGED << config, i2c_cr2, i2c_trise, i2c_ccr, i2c_oar1, i2c_sr1,
                    i2c_sr2, i2c_dr, stopSticky, locals >>

\* self.i2c.trise.write(...), in either arm of the match on the mode. Where the
\* multiplication overflows, a build with overflow checks panics and a build
\* without them wraps.
InitTrise ==
    /\ pc = "init_trise"
    /\ \E overflow_checks \in BOOLEAN :
          IF overflow_checks /\ TriseOverflows(mode, pclk1)
          THEN /\ pc' = "panicked"
               /\ UNCHANGED << i2c_trise, trace >>
          ELSE /\ i2c_trise' = TriseValue(mode, pclk1)
               /\ trace' = Append(trace, Wr("trise", {}, TriseValue(mode, pclk1)))
               /\ pc' = "init_ccr"
    /\ UNCHANGED << config, i2c_cr1, i2c_cr2, i2c_ccr, i2c_oar1, i2c_sr1,
                    i2c_sr2, i2c_dr, stopSticky, locals >>

\* self.i2c.ccr.write(...): the division panics on a frequency of 0.
InitCcr ==
    /\ pc = "init_ccr"
    /\ IF mode.frequency = 0
       THEN /\ pc' = "panicked"
            /\ UNCHANGED << i2c_ccr, trace >>
       ELSE /\ i2c_ccr' = CcrValue(mode, pclk1)
            /\ trace' = Append(trace, Wr("ccr", CcrBits(CcrValue(mode, pclk1)),
                                         CcrValue(mode, pclk1).ccr))
            /\ pc' = "init_oar1"
    /\ UNCHANGED << config, i2c_cr1, i2c_cr2, i2c_trise, i2c_oar1, i2c_sr1,
                    i2c_sr2, i2c_dr, stopSticky, locals >>

\* self.own_7_bit_address_setup(0x20)
InitOwnAddress ==
    /\ pc = "init_oar1"
    /\ i2c_oar1' = Oar1Value(OwnAddress)
    /\ trace' = Append(trace, Wr("oar1", {}, Oar1Value(OwnAddress).add))
    /\ pc' = "init_pe"
    /\ UNCHANGED << config, i2c_cr1, i2c_cr2, i2c_trise, i2c_ccr, i2c_sr1,
                    i2c_sr2, i2c_dr, stopSticky, locals >>

\* A plausible slip: PE and ACK set by the same write.
InitEnableWithAck ==
    /\ pc = "init_pe"
    /\ i2c_cr1' = i2c_cr1 \cup {"pe", "ack", "engc"}
    /\ trace' = trace \o << Rd("cr1", i2c_cr1, 0),
                            Wr("cr1", i2c_cr1 \cup {"pe", "ack", "engc"}, 0) >>
    /\ pc' = "init_ack"
    /\ UNCHANGED << config, i2c_cr2, i2c_trise, i2c_ccr, i2c_oar1, i2c_sr1,
                    i2c_sr2, i2c_dr, stopSticky, locals >>

\* self.i2c.cr1.modify(|_, w| w.pe().set_bit())
InitEnable ==
    /\ pc = "init_pe"
    /\ i2c_cr1' = i2c_cr1 \cup {"pe"}
    /\ trace' = trace \o << Rd("cr1", i2c_cr1, 0),
                            Wr("cr1", i2c_cr1 \cup {"pe"}, 0) >>
    /\ pc' = "init_ack"
    /\ UNCHANGED << config, i2c_cr2, i2c_trise, i2c_ccr, i2c_oar1, i2c_sr1,
                    i2c_sr2, i2c_dr, stopSticky, locals >>

\* self.i2c.cr1.modify(|_, w| { w.ack().set_bit(); w.engc().set_bit(); w })
InitAck ==
    /\ pc = "init_ack"
    /\ i2c_cr1' = i2c_cr1 \cup {"ack", "engc"}
    /\ trace' = trace \o << Rd("cr1", i2c_cr1, 0),
                            Wr("cr1", i2c_cr1 \cup {"ack", "engc"}, 0) >>
    /\ pc' = "ready"
    /\ UNCHANGED << config, i2c_cr2, i2c_trise, i2c_ccr, i2c_oar1, i2c_sr1,
                    i2c_sr2, i2c_dr, stopSticky, locals >>

CtorNext ==
    \/ I2cSlaveNew
    \/ InitCr2
    \/ InitCr1
    \/ InitTrise
    \/ InitCcr
    \/ InitOwnAddress
    \/ InitEnable
    \/ InitAck

CtorSpec == CtorInit /\ [][CtorNext]_vars

----------------------------------------------------------------------------
(* Hardware reactions to register accesses *)

\* SR1 has been read, in the accesses t, while it showed the flag.
ReadWhileSet(t, flag) ==
    \E i \in DOMAIN t : IsRead(t[i], "sr1") /\ flag \in t[i].bits

\* "if (ADDR == 1) {READ SR1; READ SR2}": SR1 after a read of SR2 that follows
\* the accesses t.
Sr1OnSr2Read(s, t) == IF ReadWhileSet(t, "addr") THEN s \ {"addr"} ELSE s

\* "if (STOPF == 1) {READ SR1; WRITE CR1}": SR1 after a write of CR1 that follows
\* the accesses t; a sticky STOPF stays.
Sr1OnCr1Write(s, t, sticky) ==
    IF ReadWhileSet(t, "stopf") /\ ~sticky THEN s \ {"stopf"} ELSE s

\* SR1 after a write of the value w: an error bit written as 0 is cleared, the
\* other bits are not changed by a write.
Sr1OnWrite(s, w) == {b \in s : b \notin ErrBits \/ b \in w}

----------------------------------------------------------------------------
(* The polled controller *)

Events ==
    {"ReceiverAddressMatched", "ByteReceived", "TrasmitterAddressMatched",
     "ByteTransmitting", "ByteTransmitted", "StopDetected"}

PollModes == {[kind |-> "Standard", frequency |-> 100000, duty_cycle |-> "none"]}

PollClocks == {8000000}

\* The state init_slave leaves: blocking_i2c_slave wraps it with state None.
Init ==
    /\ pc = "idle"
    /\ mode \in PollModes
    /\ pclk1 \in PollClocks
    /\ i2c_cr1 = {"pe", "ack", "engc"}
    /\ i2c_cr2 = Cr2Value(pclk1)
    /\ i2c_trise = TriseValue(mode, pclk1)
    /\ i2c_ccr = CcrValue(mode, pclk1)
    /\ i2c_oar1 = Oar1Value(OwnAddress)
    /\ i2c_sr1 = {}
    /\ i2c_sr2 = {}
    /\ i2c_dr = 0
    /\ stopSticky \in BOOLEAN
    /\ trace = << >>
    /\ NoPoll

\* A plausible slip: the receive rule does not ask for a busy bus.
LastEventRxAnyBus(s1, s2) ==
    IF "busy" \in s2 /\ "addr" \in s1
    THEN "ReceiverAddressMatched"
    ELSE IF "tra" \in s2 /\ "busy" \in s2 /\ "tx_e" \in s1 /\ "addr" \in s1
    THEN "TrasmitterAddressMatched"
    ELSE IF "rx_ne" \in s1
    THEN "ByteReceived"
    ELSE IF "tra" \in s2 /\ "busy" \in s2 /\ "tx_e" \in s1 /\ "btf" \in s1
    THEN "ByteTransmitted"
    ELSE IF "tra" \in s2 /\ "busy" \in s2 /\ "tx_e" \in s1
    THEN "ByteTransmitting"
    ELSE IF "stopf" \in s1
    THEN "StopDetected"
    ELSE "None"

\* get_last_event: the classification of the two snapshots.
LastEvent(s1, s2) ==
    IF "busy" \in s2 /\ "addr" \in s1
    THEN "ReceiverAddressMatched"
    ELSE IF "tra" \in s2 /\ "busy" \in s2 /\ "tx_e" \in s1 /\ "addr" \in s1
    THEN "TrasmitterAddressMatched"
    ELSE IF "busy" \in s2 /\ "rx_ne" \in s1
    THEN "ByteReceived"
    ELSE IF "tra" \in s2 /\ "busy" \in s2 /\ "tx_e" \in s1 /\ "btf" \in s1
    THEN "ByteTransmitted"
    ELSE IF "tra" \in s2 /\ "busy" \in s2 /\ "tx_e" \in s1
    THEN "ByteTransmitting"
    ELSE IF "stopf" \in s1
    THEN "StopDetected"
    ELSE "None"

\* A plausible slip: BERR left out of the bits it_status_clear clears.
ErrClearValueKeepsBerr(s) == s \ (ErrBits \ {"berr"})

\* it_status_clear: the value the modify closure writes to SR1.
ErrClearValue(s) == s \ ErrBits

\* it_status_clear, the first call of listen: a new poll begins.
ItStatusClear ==
    /\ pc \in {"idle", "returned"}
    /\ IF i2c_sr1 \cap ErrBits # {}
       THEN /\ trace' = << Rd("sr1", i2c_sr1, 0), Rd("sr1", i2c_sr1, 0),
                           Wr("sr1", ErrClearValue(i2c_sr1), 0) >>
            /\ i2c_sr1' = Sr1OnWrite(i2c_sr1, ErrClearValue(i2c_sr1))
       ELSE /\ trace' = << Rd("sr1", i2c_sr1, 0) >>
            /\ UNCHANGED i2c_sr1
    /\ sr1' = {}
    /\ sr2' = {}
    /\ ev' = "None"
    /\ iters' = 0
    /\ sink' = << >>
    /\ pc' = "get_last_event"
    /\ UNCHANGED << config, i2c_cr1, i2c_cr2, i2c_trise, i2c_ccr, i2c_oar1,
                    i2c_sr2, i2c_dr, stopSticky >>

\* get_last_event: one read of SR1, one of SR2, then the classification.
GetLastEvent ==
    /\ pc = "get_last_event"
    /\ sr1' = i2c_sr1
    /\ sr2' = i2c_sr2
    /\ trace' = trace \o << Rd("sr1", i2c_sr1, 0), Rd("sr2", i2c_sr2, 0) >>
    /\ i2c_sr1' = Sr1OnSr2Read(i2c_sr1, Append(trace, Rd("sr1", i2c_sr1, 0)))
    /\ ev' = LastEvent(i2c_sr1, i2c_sr2)
    /\ pc' = "dispatch"
    /\ UNCHANGED << config, i2c_cr1, i2c_cr2, i2c_trise, i2c_ccr, i2c_oar1,
                    i2c_sr2, i2c_dr, stopSticky, iters, sink >>

\* A plausible slip: the byte is written twice.
SendDataTwice(data) ==
    /\ trace' = trace \o << Wr("dr", {}, data), Wr("dr", {}, data) >>
    /\ pc' = "returned"
    /\ UNCHANGED << config, regs, stopSticky, locals >>

\* send_data(data): one write of DR.
SendData(data) ==
    /\ trace' = Append(trace, Wr("dr", {}, data))
    /\ pc' = "returned"
    /\ UNCHANGED << config, regs, stopSticky, locals >>

\* A plausible slip: the byte is read twice and the second read is logged.
OnByteReceivedReadsTwice ==
    /\ trace' = trace \o << Rd("dr", {}, i2c_dr), Rd("dr", {}, 0) >>
    /\ sink' = << [fmt |-> "{:X?}", bits |-> {}, num |-> 0] >>
    /\ pc' = "returned"
    /\ UNCHANGED << config, regs, stopSticky, sr1, sr2, ev, iters >>

\* Event::ByteReceived: let b = receive_data(); log::info!("{:X?}", b)
OnByteReceived ==
    /\ trace' = Append(trace, Rd("dr", {}, i2c_dr))
    /\ sink' = << [fmt |-> "{:X?}", bits |-> {}, num |-> i2c_dr] >>
    /\ pc' = "returned"
    /\ UNCHANGED << config, regs, stopSticky, sr1, sr2, ev, iters >>

\* Event::StopDetected: clear_flags up to its while loop.
OnStopDetected ==
    /\ IF "addr" \in i2c_sr1
       THEN /\ trace' = trace \o << Rd("sr1", i2c_sr1, 0), Rd("sr1", i2c_sr1, 0),
                                    Rd("sr2", i2c_sr2, 0) >>
            /\ i2c_sr1' = Sr1OnSr2Read(i2c_sr1, Append(trace, Rd("sr1", i2c_sr1, 0)))
            /\ sink' = << [fmt |-> "sr1: {:016b}", bits |-> i2c_sr1, num |-> 0],
                          [fmt |-> "sr2: {:016b}", bits |-> i2c_sr2, num |-> 0] >>
       ELSE /\ trace' = Append(trace, Rd("sr1", i2c_sr1, 0))
            /\ UNCHANGED << i2c_sr1, sink >>
    /\ pc' = "clear_flags_while"
    /\ UNCHANGED << config, i2c_cr1, i2c_cr2, i2c_trise, i2c_ccr, i2c_oar1,
                    i2c_sr2, i2c_dr, stopSticky, sr1, sr2, ev, iters >>

\* An arm of listen that touches nothing.
NoAction ==
    /\ pc' = "returned"
    /\ UNCHANGED << config, regs, stopSticky, trace, locals >>

\* A plausible slip: the arm for StopDetected is missing, the catch-all takes it.
DispatchNoStopArm ==
    /\ pc = "dispatch"
    /\ CASE ev = "None" -> NoAction
         [] ev = "ReceiverAddressMatched" -> NoAction
         [] ev = "ByteReceived" -> OnByteReceived
         [] ev = "TrasmitterAddressMatched" -> SendData(FirstResponseByte)
         [] ev \in {"ByteTransmitted", "ByteTransmitting"} -> SendData(NextResponseByte)
         [] OTHER -> /\ pc' = "panicked"
                     /\ UNCHANGED << config, regs, stopSticky, trace, locals >>

\* listen: the match on the decoded event.
Dispatch ==
    /\ pc = "dispatch"
    /\ CASE ev = "None" -> NoAction
         [] ev = "ReceiverAddressMatched" -> NoAction
         [] ev = "ByteReceived" -> OnByteReceived
         [] ev = "TrasmitterAddressMatched" -> SendData(FirstResponseByte)
         [] ev \in {"ByteTransmitted", "ByteTransmitting"} -> SendData(NextResponseByte)
         [] ev = "StopDetected" -> OnStopDetected
         [] OTHER -> /\ pc' = "panicked"
                     /\ UNCHANGED << config, regs, stopSticky, trace, locals >>

\* The accesses of the body of the while loop of clear_flags: the read of SR1
\* and the modify of CR1 that sets ACK.
StopClearAccesses ==
    << Rd("sr1", i2c_sr1, 0), Rd("cr1", i2c_cr1, 0),
       Wr("cr1", i2c_cr1 \cup {"ack"}, 0) >>

\* clear_flags: the loop condition finds STOPF set. The record of the accesses
\* stops growing when the counter has reached IterCap; the loop does not.
ClearFlagsEnter ==
    /\ pc = "clear_flags_while"
    /\ "stopf" \in i2c_sr1
    /\ trace' = IF iters < IterCap THEN Append(trace, Rd("sr1", i2c_sr1, 0)) ELSE trace
    /\ pc' = "clear_flags_body"
    /\ UNCHANGED << config, regs, stopSticky, locals >>

\* A plausible slip: the body of the loop does not write CR1.
ClearFlagsBodyNoWrite ==
    /\ pc = "clear_flags_body"
    /\ iters' = IF iters < IterCap THEN iters + 1 ELSE iters
    /\ trace' = IF iters < IterCap THEN Append(trace, Rd("sr1", i2c_sr1, 0)) ELSE trace
    /\ pc' = "clear_flags_while"
    /\ UNCHANGED << config, regs, stopSticky, sr1, sr2, ev, sink >>

\* A plausible slip: the body writes CR2 in place of CR1, which resets FREQ.
ClearFlagsBodyWritesCr2 ==
    /\ pc = "clear_flags_body"
    /\ i2c_cr2' = 0
    /\ iters' = IF iters < IterCap THEN iters + 1 ELSE iters
    /\ trace' = IF iters < IterCap
                THEN trace \o << Rd("sr1", i2c_sr1, 0), Wr("cr2", {}, 0) >>
                ELSE trace
    /\ pc' = "clear_flags_while"
    /\ UNCHANGED << config, i2c_cr1, i2c_trise, i2c_ccr, i2c_oar1, i2c_sr1, i2c_sr2,
                    i2c_dr, stopSticky, sr1, sr2, ev, sink >>

\* A plausible slip: CR1 is written, not modified, so only ACK stays set.
ClearFlagsBodyWritesAck ==
    /\ pc = "clear_flags_body"
    /\ i2c_cr1' = {"ack"}
    /\ i2c_sr1' = Sr1OnCr1Write(i2c_sr1, Append(trace, Rd("sr1", i2c_sr1, 0)), stopSticky)
    /\ iters' = IF iters < IterCap THEN iters + 1 ELSE iters
    /\ trace' = IF iters < IterCap
                THEN trace \o << Rd("sr1", i2c_sr1, 0), Wr("cr1", {"ack"}, 0) >>
                ELSE trace
    /\ pc' = "clear_flags_while"
    /\ UNCHANGED << config, i2c_cr2, i2c_trise, i2c_ccr, i2c_oar1, i2c_sr2,
                    i2c_dr, stopSticky, sr1, sr2, ev, sink >>

\* clear_flags: the body of the loop. The counter saturates at IterCap.
ClearFlagsBody ==
    /\ pc = "clear_flags_body"
    /\ i2c_cr1' = i2c_cr1 \cup {"ack"}
    /\ i2c_sr1' = Sr1OnCr1Write(i2c_sr1, trace \o StopClearAccesses, stopSticky)
    /\ iters' = IF iters < IterCap THEN iters + 1 ELSE iters
    /\ trace' = IF iters < IterCap THEN trace \o StopClearAccesses ELSE trace
    /\ pc' = "clear_flags_while"
    /\ UNCHANGED << config, i2c_cr2, i2c_trise, i2c_ccr, i2c_oar1, i2c_sr2,
                    i2c_dr, stopSticky, sr1, sr2, ev, sink >>

\* clear_flags: the loop condition finds STOPF clear; listen returns.
ClearFlagsExit ==
    /\ pc = "clear_flags_while"
    /\ "stopf" \notin i2c_sr1
    /\ trace' = Append(trace, Rd("sr1", i2c_sr1, 0))
    /\ pc' = "returned"
    /\ UNCHANGED << config, regs, stopSticky, locals >>

----------------------------------------------------------------------------
(* The bus, between two polls *)

\* What the last poll left in the locals is gone once the status changes.
Forget ==
    /\ pc' = "idle"
    /\ trace' = << >>
    /\ sr1' = {}
    /\ sr2' = {}
    /\ ev' = "None"
    /\ iters' = 0
    /\ sink' = << >>

\* The peripheral raises a flag of SR1; with RxNE a received byte is in DR.
BusSetsFlag ==
    /\ pc \in {"idle", "returned"}
    /\ \E b \in (EventBits1 \cup ErrBits) \ i2c_sr1 :
          /\ i2c_sr1' = i2c_sr1 \cup {b}
          /\ IF b = "rx_ne" THEN i2c_dr' \in RxBytes ELSE UNCHANGED i2c_dr
    /\ Forget
    /\ UNCHANGED << config, i2c_cr1, i2c_cr2, i2c_trise, i2c_ccr, i2c_oar1,
                    i2c_sr2, stopSticky >>

\* The peripheral drops a flag that the bus, not the software, clears.
BusClearsFlag ==
    /\ pc \in {"idle", "returned"}
    /\ \E b \in {"tx_e", "rx_ne", "btf"} \cap i2c_sr1 : i2c_sr1' = i2c_sr1 \ {b}
    /\ Forget
    /\ UNCHANGED << config, i2c_cr1, i2c_cr2, i2c_trise, i2c_ccr, i2c_oar1,
                    i2c_sr2, i2c_dr, stopSticky >>

\* BUSY and TRA follow the bus.
BusChangesSr2 ==
    /\ pc \in {"idle", "returned"}
    /\ \E b \in Sr2Bits :
          i2c_sr2' = IF b \in i2c_sr2 THEN i2c_sr2 \ {b} ELSE i2c_sr2 \cup {b}
    /\ Forget
    /\ UNCHANGED << config, i2c_cr1, i2c_cr2, i2c_trise, i2c_ccr, i2c_oar1,
                    i2c_sr1, i2c_dr, stopSticky >>

Listen ==
    \/ ItStatusClear
    \/ GetLastEvent
    \/ Dispatch
    \/ ClearFlagsEnter
    \/ ClearFlagsBody
    \/ ClearFlagsExit

Bus == BusSetsFlag \/ BusClearsFlag \/ BusChangesSr2

Next == Listen \/ Bus

Spec == Init /\ [][Next]_vars

FairSpec == Init /\ [][Next]_vars /\ WF_vars(Listen)

----------------------------------------------------------------------------
(* Construction followed by polling *)

PollPcs ==
    {"idle", "get_last_event", "dispatch", "clear_flags_while", "clear_flags_body",
     "returned"}

LifeInit ==
    /\ pc = "new"
    /\ mode \in PollModes
    /\ pclk1 \in PollClocks
    /\ ResetRegs
    /\ stopSticky \in BOOLEAN
    /\ trace = << >>
    /\ NoPoll

\* blocking_i2c_slave: the constructed I2c is wrapped and handed to the caller.
BlockingI2cSlaveNew ==
    /\ pc = "ready"
    /\ pc' = "idle"
    /\ trace' = << >>
    /\ UNCHANGED << config, regs, stopSticky, locals >>

LifeNext == CtorNext \/ BlockingI2cSlaveNew \/ Next

LifeSpec == LifeInit /\ [][LifeNext]_vars

----------------------------------------------------------------------------
(* Claims about the construction (checked under CtorSpec) *)

\* A write of CR1 with PE set comes before entry i of the accesses t.
PeSetBefore(t, i) ==
    \E j \in 1..(i - 1) : IsWrite(t[j], "cr1") /\ "pe" \in t[j].bits

WrittenBefore(t, i, reg) == \E j \in 1..(i - 1) : IsWrite(t[j], reg)

\* C8: initialization ordering. TRISE and CCR are written while PE is clear; PE
\* is set only after TRISE, CCR and OAR1 have been written; ACK is set only by a
\* write of CR1 that comes after the write that set PE; and a construction that
\* completes has done all of it.
C8_InitOrdering ==
    /\ \A i \in DOMAIN trace :
          /\ (IsWrite(trace[i], "trise") \/ IsWrite(trace[i], "ccr"))
                => ~PeSetBefore(trace, i)
          /\ (IsWrite(trace[i], "cr1") /\ "pe" \in trace[i].bits)
                => /\ WrittenBefore(trace, i, "trise")
                   /\ WrittenBefore(trace, i, "ccr")
                   /\ WrittenBefore(trace, i, "oar1")
          /\ (IsWrite(trace[i], "cr1") /\ "ack" \in trace[i].bits)
                => PeSetBefore(trace, i)
    /\ pc \in {"init_trise", "init_ccr", "init_oar1", "init_pe"} => "pe" \notin i2c_cr1
    /\ pc = "ready" => /\ {"pe", "ack"} \subseteq i2c_cr1
                       /\ Count(trace, "write", "trise") = 1
                       /\ Count(trace, "write", "ccr") = 1

C8_Witness ==
    /\ pc = "ready"
    /\ mode.kind = "Fast"
    /\ {"pe", "ack"} \subseteq i2c_cr1
    /\ Count(trace, "write", "cr1") = 3

\* C9: a requested frequency above 400 kHz fails the construction in every mode
\* and duty cycle: the program ends in the failed assertion and has written no
\* register of the initialization sequence.
C9_OverFrequencyFails ==
    mode.frequency > 400000 =>
        /\ pc \in {"new", "panicked"}
        /\ trace = << >>
        /\ ResetRegs

C9_Witness ==
    /\ pc = "panicked"
    /\ mode.frequency > 400000
    /\ mode.kind = "Fast"
    /\ mode.duty_cycle = "Ratio16to9"

\* C10: in Standard mode with f <= 400 kHz the rate divisor written at
\* construction is max(4, floor(c / (2 * f))), the quotient not truncated.
C10_StandardDivisor ==
    (/\ mode.kind = "Standard"
     /\ mode.frequency <= 400000
     /\ pc \in {"init_oar1", "init_pe", "init_ack", "ready"})
        => i2c_ccr.ccr = Max(4, pclk1 \div (2 * mode.frequency))

----------------------------------------------------------------------------
(* Claims about polling (checked under Spec, C6 under FairSpec) *)

\* The precedence list as the specification words it: rule 1 asks for
\* "not transmitting".
ClaimedEvent(s1, s2) ==
    IF "busy" \in s2 /\ "addr" \in s1 /\ "tra" \notin s2
    THEN "ReceiverAddressMatched"
    ELSE IF "tra" \in s2 /\ "busy" \in s2 /\ "tx_e" \in s1 /\ "addr" \in s1
    THEN "TrasmitterAddressMatched"
    ELSE IF "busy" \in s2 /\ "rx_ne" \in s1
    THEN "ByteReceived"
    ELSE IF "tra" \in s2 /\ "busy" \in s2 /\ "tx_e" \in s1 /\ "btf" \in s1
    THEN "ByteTransmitted"
    ELSE IF "tra" \in s2 /\ "busy" \in s2 /\ "tx_e" \in s1
    THEN "ByteTransmitting"
    ELSE IF "stopf" \in s1
    THEN "StopDetected"
    ELSE "None"

\* The poll has decoded its event.
Decoded == pc \in {"dispatch", "clear_flags_while", "clear_flags_body", "returned"}

\* C1: decoder precedence. The event a poll decodes is the event of the first
\* matching rule of the specification's list, for every combination of the
\* seven status bits in the two snapshots.
C1_DecoderPrecedence == Decoded => ev = ClaimedEvent(sr1, sr2)

\* C2: a poll whose status is that of TransmitterAddressMatched (transmitting,
\* busy, data register empty, address matched) writes DR exactly once, with the
\* fixed first response byte, and does not read DR.
C2_TransmitterAddressWrite ==
    (pc = "returned" /\ ClaimedEvent(sr1, sr2) = "TrasmitterAddressMatched")
        => /\ Count(trace, "write", "dr") = 1
           /\ Count(trace, "read", "dr") = 0
           /\ \E i \in DOMAIN trace :
                 IsWrite(trace[i], "dr") /\ trace[i].num = FirstResponseByte

\* C3: a poll that decodes ByteReceived reads DR exactly once, does not write
\* DR, and hands the diagnostic sink exactly the byte that read returned.
C3_ByteReceivedRead ==
    (pc = "returned" /\ ev = "ByteReceived")
        => /\ Count(trace, "read", "dr") = 1
           /\ Count(trace, "write", "dr") = 0
           /\ Len(sink) = 1
           /\ \E i \in DOMAIN trace :
                 /\ IsRead(trace[i], "dr")
                 /\ trace[i].num = i2c_dr
                 /\ sink[1].num = trace[i].num

C3_Witness ==
    /\ pc = "returned"
    /\ ev = "ByteReceived"
    /\ "stopf" \in sr1
    /\ Len(sink) = 1
    /\ sink[1].num = 165

\* C4: with a STOPF that never clears, the stop-clear loop gives up after at
\* most 8 iterations.
C4_StopClearBounded == stopSticky => iters <= 8

\* C5: with a STOPF that the hardware clears on its clear sequence, the
\* stop-clear loop of a poll that decoded StopDetected reads SR1 and then
\* writes CR1 with ACK set, runs exactly one iteration, and STOPF is clear
\* when the poll returns.
C5_StopClearConverges ==
    ~stopSticky =>
        /\ pc = "clear_flags_body" => iters = 0
        /\ pc = "clear_flags_while" =>
              /\ iters <= 1
              /\ iters = 1 => "stopf" \notin i2c_sr1
        /\ (pc = "returned" /\ ev = "StopDetected") =>
              /\ iters = 1
              /\ "stopf" \notin i2c_sr1
              /\ Count(trace, "write", "cr1") = 1
              /\ LET n == Len(trace) IN
                     /\ n >= 5
                     /\ IsRead(trace[n - 4], "sr1")
                     /\ IsRead(trace[n - 3], "sr1")
                     /\ "stopf" \in trace[n - 3].bits
                     /\ IsRead(trace[n - 2], "cr1")
                     /\ IsWrite(trace[n - 1], "cr1")
                     /\ "ack" \in trace[n - 1].bits
                     /\ IsRead(trace[n], "sr1")
                     /\ "stopf" \notin trace[n].bits

C5_Witness ==
    /\ pc = "returned"
    /\ ev = "StopDetected"
    /\ ~stopSticky
    /\ iters = 1
    /\ "stopf" \notin i2c_sr1

\* C6: poll() is non-blocking: whatever the status and the behaviour of the
\* flags, a poll that has begun returns.
C6_PollReturns ==
    [](pc \in {"get_last_event", "dispatch", "clear_flags_while", "clear_flags_body"}
          => <>(pc = "returned"))

\* C7: error-flag clear. When it_status_clear finds any of the seven error
\* bits set, it writes once, to SR1, and all seven bits are clear afterwards,
\* in the register and in the next snapshot taken of it.
C7_ErrorFlagsCleared ==
    /\ pc = "get_last_event" =>
          (trace[1].bits \cap ErrBits # {} =>
              /\ Writes(trace) = 1
              /\ Count(trace, "write", "sr1") = 1
              /\ i2c_sr1 \cap ErrBits = {})
    /\ pc = "dispatch" => sr1 \cap ErrBits = {}

C7_Witness ==
    /\ pc = "get_last_event"
    /\ trace[1].bits \cap ErrBits = {"af", "ovr"}
    /\ "stopf" \in i2c_sr1
    /\ Writes(trace) = 1

----------------------------------------------------------------------------
(* Further claims about the construction (checked under CtorSpec) *)

CcrWrittenPcs == {"init_oar1", "init_pe", "init_ack", "ready"}

\* The rate divisor has been written.
CcrWritten == pc \in CcrWrittenPcs

\* C11: in Fast mode with f <= 400 kHz the rate-divisor register written at
\* construction has the fast-mode flag set, the duty flag set exactly for
\* Ratio16to9, and the divisor max(1, floor(c / (3 * f))) for Ratio2to1 and
\* max(1, floor(c / (25 * f))) for Ratio16to9.
C11_FastDivisor ==
    (mode.kind = "Fast" /\ mode.frequency <= 400000 /\ CcrWritten)
        => /\ i2c_ccr.f_s
           /\ i2c_ccr.duty <=> (mode.duty_cycle = "Ratio16to9")
           /\ i2c_ccr.ccr =
                 IF mode.duty_cycle = "Ratio2to1"
                 THEN Max(1, pclk1 \div (3 * mode.frequency))
                 ELSE Max(1, pclk1 \div (25 * mode.frequency))

\* C12: the rise-time value written at construction is clock_MHz + 1 in
\* Standard mode and floor(clock_MHz * 300 / 1000) + 1 in Fast mode, for every
\* input clock; so a construction with an accepted frequency gets as far as
\* writing it.
C12_RiseTime ==
    /\ (mode.frequency <= 400000 /\ pc = "panicked") => mode.frequency = 0
    /\ (pc \in {"init_ccr"} \cup CcrWrittenPcs)
          => i2c_trise =
                IF mode.kind = "Standard"
                THEN (pclk1 \div 1000000) + 1
                ELSE (((pclk1 \div 1000000) * 300) \div 1000) + 1

\* C13: after construction OAR1 holds the 7-bit own address shifted left by
\* one bit, with the extended-addressing bit clear; OAR1 is written exactly
\* once, with that value, before PE is set.
C13_OwnAddress ==
    /\ OwnAddress < 128
    /\ Count(trace, "write", "oar1") <= 1
    /\ \A i \in DOMAIN trace :
          IsWrite(trace[i], "oar1")
             => trace[i].num = 2 * OwnAddress /\ ~PeSetBefore(trace, i)
    /\ "pe" \in i2c_cr1 => Count(trace, "write", "oar1") = 1
    /\ pc = "ready" =>
          /\ i2c_oar1.add = 2 * OwnAddress
          /\ ~i2c_oar1.addmode
          /\ Count(trace, "write", "oar1") = 1

C13_Witness ==
    /\ pc = "ready"
    /\ i2c_oar1 = [add |-> 64, addmode |-> FALSE]
    /\ Count(trace, "write", "oar1") = 1

----------------------------------------------------------------------------
(* Claims about the constructed controller under polling (checked under LifeSpec) *)

\* C14: after a successful construction and after any sequence of polls, CR1
\* has PE, ACK and ENGC set: no step of a poll clears any of them.
C14_ControlBitsStay == pc \in PollPcs => {"pe", "ack", "engc"} \subseteq i2c_cr1

C14_Witness ==
    /\ pc = "returned"
    /\ ev = "StopDetected"
    /\ Count(trace, "write", "cr1") = 1
    /\ {"pe", "ack", "engc"} \subseteq i2c_cr1

\* The registers that hold the configuration.
ConfigRegs == << i2c_cr2, i2c_trise, i2c_ccr, i2c_oar1 >>

ConfigRegNames == {"cr2", "trise", "ccr", "oar1"}

\* C19: the configuration is immutable after construction: from the moment
\* init_slave has finished, no step writes the rise-time register, the
\* rate-divisor register, the clock-frequency field or the own-address
\* register, and none changes their values.
C19_ConfigImmutable ==
    /\ [](pc \in PollPcs =>
             \A i \in DOMAIN trace :
                 ~(trace[i].op = "write" /\ trace[i].reg \in ConfigRegNames))
    /\ [][(pc \in PollPcs \cup {"ready"}) => (ConfigRegs' = ConfigRegs)]_vars

C19_Witness ==
    /\ pc = "returned"
    /\ ev = "StopDetected"
    /\ iters = 1
    /\ i2c_cr2 = 8
    /\ i2c_trise = 9
    /\ i2c_ccr = [ccr |-> 40, duty |-> FALSE, f_s |-> FALSE]
    /\ i2c_oar1 = [add |-> 64, addmode |-> FALSE]

----------------------------------------------------------------------------
(* Further claims about polling (checked under Spec) *)

\* C15: no condition is silently consumed. A poll that began with ADDR set
\* and has cleared it decoded ReceiverAddressMatched or
\* TransmitterAddressMatched; a poll that began with STOPF set and has cleared
\* it decoded StopDetected.
C15_NoSilentClear ==
    Decoded =>
        /\ ("addr" \in trace[1].bits /\ "addr" \notin i2c_sr1)
              => ev \in {"ReceiverAddressMatched", "TrasmitterAddressMatched"}
        /\ ("stopf" \in trace[1].bits /\ "stopf" \notin i2c_sr1)
              => ev = "StopDetected"

\* C16: a poll that decodes ByteTransmitted or ByteTransmitting writes DR
\* exactly once, with the next response byte, does not read DR and writes no
\* control register.
C16_NextByteWrite ==
    (pc = "returned" /\ ev \in {"ByteTransmitted", "ByteTransmitting"})
        => /\ Count(trace, "write", "dr") = 1
           /\ \A i \in DOMAIN trace :
                 IsWrite(trace[i], "dr") => trace[i].num = NextResponseByte
           /\ Count(trace, "read", "dr") = 0
           /\ Count(trace, "write", "cr1") = 0
           /\ Count(trace, "write", "cr2") = 0

C16_Witness ==
    /\ pc = "returned"
    /\ ev = "ByteTransmitted"
    /\ Count(trace, "write", "dr") = 1
    /\ "stopf" \in i2c_sr1

\* C17: a pending stop is not starved once the bus is idle. A poll that finds
\* STOPF set and BUSY clear decodes StopDetected, whatever the other bits,
\* and has run the stop-clear sequence, which cleared STOPF, when it returns.
C17_StopNotStarved ==
    (Decoded /\ "stopf" \in sr1 /\ "busy" \notin sr2) =>
        /\ ev = "StopDetected"
        /\ pc # "dispatch" => pc \in {"clear_flags_while", "clear_flags_body", "returned"}
        /\ pc = "returned" =>
              /\ iters >= 1
              /\ Count(trace, "write", "cr1") >= 1
              /\ "stopf" \notin i2c_sr1

C17_Witness ==
    /\ pc = "returned"
    /\ ev = "StopDetected"
    /\ sr2 = {"tra"}
    /\ {"stopf", "rx_ne", "tx_e", "btf", "addr"} \subseteq sr1
    /\ "stopf" \notin i2c_sr1

\* C18: the fatal-abort arm of listen is unreachable: the decoded event is one
\* of the six handled events or absent, and no poll ends in the abort.
C18_NoAbort ==
    /\ pc # "panicked"
    /\ Decoded => ev \in Events \cup {"None"}

C18_Witness ==
    /\ pc = "returned"
    /\ ev = "None"
    /\ sr1 = {"tx_e", "btf"}
    /\ sr2 = {"tra"}

====
